---- MODULE Spec2Model ----
(***************************************************************************)
(* The drone simulator of src/src/pages/Simulator.tsx: the build registry, *)
(* the script interpreter (runCode), Stop & Reset (stopCode), the manual   *)
(* override (handleManualCommand and the key listener) and their timers.   *)
(*                                                                         *)
(* Representation.  The altitude (position.y) is in thousandths of a       *)
(* metre.  The x and z of a position are kept exactly: <<a, b, c, d>> is   *)
(* a/1000 + (b*sqrt(2) + c*sqrt(3) + d*sqrt(6))/4 metres, the sines and    *)
(* cosines of the multiples of 15 degrees being of that form (see Lengths  *)
(* below); At(x, y, z) is the position of x, y, z thousandths.  The        *)
(* throttle is in                                                          *)
(* hundredths, angles in whole degrees (the code keeps radians and only    *)
(* ever adds whole numbers of degrees times PI/180).  A React state        *)
(* variable is a variable here; what a closure captured when the handler   *)
(* was created is a field of the pending continuation.  A log entry is     *)
(* the message without its wall-clock prefix.  The wind is in tenths of a   *)
(* metre per second, the time of a frame in milliseconds.                  *)
(***************************************************************************)
EXTENDS Integers, Sequences, FiniteSets, TLC

VARIABLES buildState, droneType, isHovering, isRunning, throttle, crashed,
          dronePos, droneRot, activeMission, keyboardEnabled, code, logs,
          timers, toggles, lastCall, windX, windZ, pGain

registryVars == <<buildState, droneType, toggles>>
flightVars   == <<isHovering, throttle, dronePos, droneRot>>
vars == <<buildState, droneType, isHovering, isRunning, throttle, crashed,
          dronePos, droneRot, activeMission, keyboardEnabled, code, logs,
          timers, toggles, lastCall, windX, windZ, pGain>>

(***************************************************************************)
(* Bounds of the model.                                                    *)
(***************************************************************************)
\* a handler is taken only if the log it leaves has at most MaxLog entries
MaxLog == 4
\* ... and at most MaxTimers callbacks (setTimeout) are pending
MaxTimers == 2
\* ... and toggleComponent is called at most MaxToggles times (toggles
\* counts the calls)
MaxToggles == 6
\* a frame is taken only if it leaves the drone within MaxDrift (thousandths)
\* of the x and z axes
MaxDrift == 40
\* in SpecScript a handler is taken only if the log it leaves has at most
\* MaxRunLog entries
MaxRunLog == 11

(***************************************************************************)
(* Build registry                                                          *)
(***************************************************************************)
Parts == {"frame", "motors", "esc", "fc", "camera", "battery", "props", "wings"}

DroneTypes == {"quadcopter", "fixed-wing"}

COMPONENT_SPECS ==
  [ frame   |-> [weight |-> 150, thrust |-> 0],
    motors  |-> [weight |-> 120, thrust |-> 3200],
    esc     |-> [weight |-> 20,  thrust |-> 0],
    fc      |-> [weight |-> 10,  thrust |-> 0],
    camera  |-> [weight |-> 15,  thrust |-> 0],
    battery |-> [weight |-> 250, thrust |-> 0],
    props   |-> [weight |-> 20,  thrust |-> 0],
    wings   |-> [weight |-> 200, thrust |-> 0] ]

FixedWingThrust == 2000

InitBuildState ==
  [k \in Parts |-> k = "frame"]

RECURSIVE SumWeights(_, _)
SumWeights(bs, ks) ==
  IF ks = {} THEN 0
  ELSE LET k == CHOOSE x \in ks : TRUE
       IN  (IF bs[k] THEN COMPONENT_SPECS[k].weight ELSE 0)
           + SumWeights(bs, ks \ {k})

totalWeight(bs) == SumWeights(bs, DOMAIN bs)

isFullyBuilt(bs, dt) ==
  IF dt = "quadcopter"
  THEN bs.frame /\ bs.motors /\ bs.esc /\ bs.fc /\ bs.battery /\ bs.props
  ELSE bs.frame /\ bs.motors /\ bs.esc /\ bs.fc /\ bs.battery /\ bs.props
       /\ bs.wings

\* a bug one could make: thrust for the quadcopter only
maxThrustQuadOnly(bs, dt) ==
  IF bs.motors /\ bs.props /\ bs.battery /\ dt = "quadcopter"
  THEN COMPONENT_SPECS.motors.thrust
  ELSE 0

maxThrust(bs, dt) ==
  IF bs.motors /\ bs.props /\ bs.battery
  THEN (IF dt = "quadcopter" THEN COMPONENT_SPECS.motors.thrust
        ELSE FixedWingThrust)
  ELSE 0

(***************************************************************************)
(* twr = (maxThrust / totalWeight).toFixed(1), in tenths.  toFixed(1)      *)
(* takes the multiple of 0.1 nearest to the double maxThrust/totalWeight,  *)
(* the larger one when both are equally near.  For integers the double is  *)
(* near enough to the exact quotient that only an exact tie                *)
(* (20 * thrust = m * weight, m odd) depends on it: the double of m/20 is  *)
(* exact when 5 divides m, and for the other m < 80 it lies above m/20     *)
(* exactly for the m of TwrTieAbove (IEEE-754 binary64).                   *)
(***************************************************************************)
TwrTieAbove == {1, 9, 11, 13, 21, 27, 31, 37, 47, 49, 57, 59, 67, 69, 77, 79}

\* for thrust > 0, weight > 0.  (No registry's ratio is a tie.)
toFixed1(thrust, weight) ==
  LET k == (10 * thrust) \div weight
      twice == 20 * thrust - 2 * k * weight
  IN  IF twice > weight THEN k + 1
      ELSE IF twice < weight THEN k
      ELSE LET m == 2 * k + 1
           IN  IF m % 5 = 0 \/ m \in TwrTieAbove THEN k + 1 ELSE k

\* a bug one could make: the ratio the wrong way round, weight over thrust
twrInverted(thrust, weight) ==
  IF thrust > 0 /\ weight > 0 THEN toFixed1(weight, thrust) ELSE 0

\* parseFloat(twr) * 10.  (A thrust > 0 over a weight of 0 is "Infinity":
\* canFlyOf treats it.)
twr(thrust, weight) ==
  IF thrust > 0 /\ weight > 0 THEN toFixed1(thrust, weight) ELSE 0

canFlyOf(thrust, weight) ==
  IF thrust > 0 /\ weight = 0 THEN TRUE ELSE twr(thrust, weight) > 12

canFly(bs, dt) == canFlyOf(maxThrust(bs, dt), totalWeight(bs))

(***************************************************************************)
(* Log                                                                     *)
(***************************************************************************)
\* arg: the text or the numbers the message is built from, as a tuple
Entry(tag, arg) == [tag |-> tag, arg |-> arg]

InitLogs == << Entry("System initialized. Ready.", << >>) >>

\* a bug one could make: a log that keeps its last message only
addLogOverwrites(S, tag, arg) == [S EXCEPT !.logs = << Entry(tag, arg) >>]

addLog(S, tag, arg) == [S EXCEPT !.logs = Append(@, Entry(tag, arg))]

(***************************************************************************)
(* Scripts.  A line of the script is kept as what runCode reads off it     *)
(* after trim() and toLowerCase(): its text, the first of the prefixes     *)
(* runCode tests that it starts with ("#" for a comment, "" for none),     *)
(* the first run of digits in it (match(/\d+/), << >> when there is none)  *)
(* and the two numbers of the waypoint pattern (in thousandths).           *)
(***************************************************************************)
Line(text, head, digits) ==
  [text |-> text, head |-> head, digits |-> digits, wp |-> << >>]

Blank == [text |-> "", head |-> "", digits |-> << >>, wp |-> << >>]

Comment(text) == Line(text, "#", << >>)

defaultCode ==
  << Comment("# --- research flight script ---"),
     Comment("# language: python-like pseudo-code"),
     Comment("# simulating mavlink commands to a pid-controlled flight controller"),
     Blank,
     Comment("# 1. arm motors and climb to 2 meters"),
     Line("takeoff()", "takeoff()", << >>),
     Blank,
     Comment("# 2. stabilize and wait for 2 seconds"),
     Comment("# observe the drone fighting wind drift if wind is enabled"),
     Line("hover(2)", "hover(", <<2>>),
     Blank,
     Comment("# 3. pitch forward to move 3 meters"),
     Line("forward(3)", "forward(", <<3>>),
     Blank,
     Comment("# 4. yaw (rotate) 90 degrees to the right"),
     Line("yaw(90)", "yaw(", <<90>>),
     Blank,
     Comment("# 5. move forward again"),
     Line("forward(3)", "forward(", <<3>>),
     Blank,
     Comment("# 6. descend to 0 meters and disarm motors"),
     Line("land()", "land()", << >>),
     Blank >>

\* a script a user may type instead
shortCode ==
  << Line("takeoff()", "takeoff()", << >>),
     Line("forward(1)", "forward(", <<1>>) >>

\* waypoint(x, z): the numbers of the pattern in thousandths
Waypoint(text, digits, x, z) ==
  [text |-> text, head |-> "waypoint(", digits |-> digits, wp |-> <<x, z>>]

\* scripts the interpreter is tried on
forwardCode == << Line("forward(3)", "forward(", <<3>>) >>

yawCode ==
  << Line("yaw(90)", "yaw(", <<90>>),
     Line("forward(1)", "forward(", <<1>>) >>

unknownCode ==
  << Line("flip()", "", << >>),
     Line("takeoff()", "takeoff()", << >>) >>

hoopCode ==
  << Line("takeoff()", "takeoff()", << >>),
     Waypoint("waypoint(0, -5)", <<0>>, 0, -5000) >>

\* match(/\d+/) finds the digits after the sign
yawBackCode ==
  << Line("yaw(-90)", "yaw(", <<90>>),
     Line("yaw(90)", "yaw(", <<90>>) >>

stepCode == << Line("forward(1)", "forward(", <<1>>) >>

ScriptInputs ==
  {forwardCode, yawCode, unknownCode, hoopCode, yawBackCode, stepCode}

Scripts == {defaultCode, shortCode}

\* code.split('\n').map(trim, lower).filter(l => l && !l.startsWith('#'))
ParseLines(script) ==
  SelectSeq(script, LAMBDA l : l.text # "" /\ l.head # "#")

\* parseFloat(line.match(/\d+/)?.[0] || dflt)
NumArg(line, dflt) ==
  IF line.digits = << >> THEN dflt ELSE line.digits[1]

(***************************************************************************)
(* Lengths.  x and z are sums of products of whole numbers with sines and  *)
(* cosines of multiples of 15 degrees (and of wind drifts and waypoint     *)
(* coordinates, which are decimal): all of the form                        *)
(*   a/1000 + (b*sqrt(2) + c*sqrt(3) + d*sqrt(6))/4   metres,              *)
(* kept as <<a, b, c, d>>, so that no rounding builds up over the moves.   *)
(***************************************************************************)
\* mm thousandths of a metre
R(mm) == <<mm, 0, 0, 0>>

Plus(p, q) == <<p[1] + q[1], p[2] + q[2], p[3] + q[3], p[4] + q[4]>>

\* k * p, k a whole number
Times(k, p) == <<k * p[1], k * p[2], k * p[3], k * p[4]>>

\* the position [x, y, z] given in thousandths
At(x, y, z) == <<R(x), y, R(z)>>

Abs(x) == IF x < 0 THEN 0 - x ELSE x

Sgn(x) == IF x < 0 THEN -1 ELSE IF x > 0 THEN 1 ELSE 0

(***************************************************************************)
(* Whole numbers beyond 2^31 (products of squared lengths): the digits of  *)
(* base Base, least significant first, Limbs of them.                      *)
(***************************************************************************)
Base == 10000

Limbs == 12

\* s with its carries (or borrows) propagated: every digit in 0 .. Base - 1
RECURSIVE Carry(_, _)
Carry(s, c) ==
  IF s = << >> THEN << >>
  ELSE LET v == Head(s) + c
       IN  << v % Base >> \o Carry(Tail(s), v \div Base)

\* n >= 0
Big(n) ==
  [i \in 1 .. Limbs |->
     CASE i = 1 -> n % Base
       [] i = 2 -> (n \div Base) % Base
       [] i = 3 -> n \div (Base * Base)
       [] OTHER -> 0]

BigAdd(s, t) == Carry([i \in 1 .. Limbs |-> s[i] + t[i]], 0)

\* s - t, for s >= t
BigSub(s, t) == Carry([i \in 1 .. Limbs |-> s[i] - t[i]], 0)

\* k * s, k a small whole number >= 0
BigTimes(k, s) == Carry([i \in 1 .. Limbs |-> k * s[i]], 0)

RECURSIVE Conv(_, _, _, _)
Conv(s, t, k, i) ==
  IF i = 0 THEN 0 ELSE s[i] * t[k + 1 - i] + Conv(s, t, k, i - 1)

BigMul(s, t) == Carry([k \in 1 .. Limbs |-> Conv(s, t, k, k)], 0)

\* -1, 0, 1 as s is less than, equal to, greater than t
RECURSIVE BigCmpFrom(_, _, _)
BigCmpFrom(s, t, i) ==
  IF i = 0 THEN 0
  ELSE IF s[i] > t[i] THEN 1
  ELSE IF s[i] < t[i] THEN -1
  ELSE BigCmpFrom(s, t, i - 1)

BigCmp(s, t) == BigCmpFrom(s, t, Limbs)

\* whole numbers with their sign
Signed(n) == [sg |-> Sgn(n), mag |-> Big(Abs(n))]

SNeg(u) == [u EXCEPT !.sg = 0 - u.sg]

SMul(u, v) == [sg |-> u.sg * v.sg, mag |-> BigMul(u.mag, v.mag)]

\* k * u, k a small whole number > 0
STimes(k, u) == [u EXCEPT !.mag = BigTimes(k, u.mag)]

SAdd(u, v) ==
  IF u.sg = 0 THEN v
  ELSE IF v.sg = 0 THEN u
  ELSE IF u.sg = v.sg THEN [u EXCEPT !.mag = BigAdd(u.mag, v.mag)]
  ELSE LET c == BigCmp(u.mag, v.mag)
       IN  IF c = 0 THEN Signed(0)
           ELSE IF c > 0 THEN [sg |-> u.sg, mag |-> BigSub(u.mag, v.mag)]
           ELSE [sg |-> v.sg, mag |-> BigSub(v.mag, u.mag)]

\* the sign of u + v * sqrt(2)
SignRoot2(u, v) ==
  IF u.sg = 0 THEN v.sg
  ELSE IF v.sg = 0 \/ v.sg = u.sg THEN u.sg
  ELSE u.sg * BigCmp(BigMul(u.mag, u.mag), BigTimes(2, BigMul(v.mag, v.mag)))

\* the sign of k1 + k2 * sqrt(2) + k3 * sqrt(3) + k6 * sqrt(6), exactly: that
\* of A + B * sqrt(3) for A = k1 + k2 * sqrt(2), B = k3 + k6 * sqrt(2),
\* decided when A and B differ in sign by the sign of A * A - 3 * B * B
Sign4(k1, k2, k3, k6) ==
  IF k2 = 0 /\ k3 = 0 /\ k6 = 0 THEN Sgn(k1)
  ELSE
  LET a1 == Signed(k1)
      a2 == Signed(k2)
      b1 == Signed(k3)
      b2 == Signed(k6)
      sA == SignRoot2(a1, a2)
      sB == SignRoot2(b1, b2)
  IN  IF sB = 0 THEN sA
      ELSE IF sA = 0 \/ sA = sB THEN sB
      ELSE LET U == SAdd(SAdd(SMul(a1, a1), STimes(2, SMul(a2, a2))),
                         SNeg(STimes(3, SAdd(SMul(b1, b1),
                                             STimes(2, SMul(b2, b2))))))
               V == SAdd(STimes(2, SMul(a1, a2)), SNeg(STimes(6, SMul(b1, b2))))
           IN  sA * SignRoot2(U, V)

\* p >= n - 1/2 thousandths
AtLeastHalfBelow(p, n) ==
  Sign4(2 * (p[1] - n) + 1, 500 * p[2], 500 * p[3], 500 * p[4]) >= 0

\* p to the nearest thousandth (a half goes up): the whole number within 1
\* of the sum taken with sqrt(2)/4 = 0.3535534, sqrt(3)/4 = 0.4330127,
\* sqrt(6)/4 = 0.6123724 that has p in [n - 1/2, n + 1/2)
Millis(p) ==
  LET n0 == p[1] + (2 * (p[2] * 3535534 + p[3] * 4330127 + p[4] * 6123724)
                      + 10000) \div 20000
  IN  CHOOSE n \in {n0 - 1, n0, n0 + 1} :
        AtLeastHalfBelow(p, n) /\ ~AtLeastHalfBelow(p, n + 1)

\* the square of p in square thousandths, <<k1, k2, k3, k6>> for
\* k1 + k2 * sqrt(2) + k3 * sqrt(3) + k6 * sqrt(6)
Square(p) ==
  << p[1] * p[1] + 62500 * (2 * p[2] * p[2] + 3 * p[3] * p[3] + 6 * p[4] * p[4]),
     500 * p[1] * p[2] + 375000 * p[3] * p[4],
     500 * p[1] * p[3] + 250000 * p[2] * p[4],
     500 * p[1] * p[4] + 125000 * p[2] * p[3] >>

(***************************************************************************)
(* Math.sin and Math.cos of a whole number of degrees (multiples of 15     *)
(* degrees, all the angles the bounded scripts and the manual yaw steps    *)
(* produce), as lengths per metre: sin 15 = (sqrt(6) - sqrt(2))/4,         *)
(* sin 30 = 1/2, sin 45 = sqrt(2)/2, sin 60 = sqrt(3)/2,                   *)
(* sin 75 = (sqrt(6) + sqrt(2))/4.                                         *)
(***************************************************************************)
SinTable ==
  [d \in {0, 15, 30, 45, 60, 75, 90} |->
     CASE d = 0 -> R(0) [] d = 15 -> <<0, -1, 0, 1>> [] d = 30 -> R(500)
       [] d = 45 -> <<0, 2, 0, 0>> [] d = 60 -> <<0, 0, 2, 0>>
       [] d = 75 -> <<0, 1, 0, 1>> [] d = 90 -> R(1000)]

Sin(deg) ==
  LET r == deg % 360
  IN  IF r <= 90 THEN SinTable[r]
      ELSE IF r <= 180 THEN SinTable[180 - r]
      ELSE IF r <= 270 THEN Times(-1, SinTable[r - 180])
      ELSE Times(-1, SinTable[360 - r])

Cos(deg) == Sin(deg + 90)

(***************************************************************************)
(* Component state.  The handlers are written as functions from the        *)
(* component's state (a record S of the state variables they write) to     *)
(* the state they leave; setState calls made in one synchronous stretch    *)
(* are applied in order.                                                   *)
(***************************************************************************)
Here ==
  [ isHovering |-> isHovering, isRunning |-> isRunning, throttle |-> throttle,
    crashed |-> crashed, dronePos |-> dronePos, droneRot |-> droneRot,
    activeMission |-> activeMission, logs |-> logs, timers |-> timers ]

\* batteryVoltage.toFixed(1) in tenths of a volt, batteryVoltage being
\* Math.max(14.0, 16.8 - (throttle > 0 ? throttle : 0.3) * 1.5) while armed
batteryVoltage(hovering, thr) ==
  IF hovering
  THEN CASE thr = 0  -> 164 [] thr = 10 -> 167 [] thr = 30 -> 164
         [] thr = 50 -> 161 [] thr = 60 -> 159 [] thr = 80 -> 156
  ELSE 168

\* what a runCode call holds: its parsed lines, the index of the line it is
\* at, its local currentRot, the values of the render it was created in,
\* and what dist < 1.5 gives on its dronePos if that is exactly 1.5 away
NoRun ==
  [ lines |-> << >>, i |-> 0, currentRot |-> <<0, 0, 0>>, isRunning |-> FALSE,
    dronePos |-> At(0, 0, 0), activeMission |-> "free", battery |-> 168,
    onSphere |-> FALSE ]

\* a pending setTimeout: what it does when it fires, its delay in ms
Timer(kind, delay, run) == [kind |-> kind, delay |-> delay, run |-> run]

setTimeout(S, kind, delay, run) ==
  [S EXCEPT !.timers = Append(@, Timer(kind, delay, run))]

(***************************************************************************)
(* Manual override                                                         *)
(***************************************************************************)
ManualCommands ==
  {"takeoff", "land", "forward", "backward", "left", "right",
   "yaw_left", "yaw_right"}

toUpperCase ==
  [ takeoff |-> "TAKEOFF", land |-> "LAND", forward |-> "FORWARD",
    backward |-> "BACKWARD", left |-> "LEFT", right |-> "RIGHT",
    yaw_left |-> "YAW_LEFT", yaw_right |-> "YAW_RIGHT" ]

\* [x + sin(angle) * val, y, z + cos(angle) * val]
Displace(pos, angle, val) ==
  << Plus(pos[1], Times(val, Sin(angle))), pos[2],
     Plus(pos[3], Times(val, Cos(angle))) >>

handleManualCommand(S, built, cmd) ==
  IF ~built THEN S
  ELSE
    LET currentPos == S.dronePos
        currentRot == S.droneRot
        val == 1
        yaw == currentRot[2]
        S1 == addLog(S, "Manual Override", << toUpperCase[cmd] >>)
    IN  CASE cmd = "takeoff" ->
               setTimeout([S1 EXCEPT !.isHovering = TRUE, !.throttle = 80,
                              !.dronePos = <<currentPos[1], 2000, currentPos[3]>>],
                          "setThrottle(0.3)", 1000, NoRun)
          [] cmd = "land" ->
               setTimeout([S1 EXCEPT !.throttle = 10,
                              !.dronePos = <<currentPos[1], 0, currentPos[3]>>],
                          "disarm", 1000, NoRun)
          [] cmd = "forward" ->
               setTimeout([S1 EXCEPT !.throttle = 50,
                              !.dronePos = Displace(currentPos, yaw, val)],
                          "setThrottle(0.3)", 500, NoRun)
          [] cmd = "backward" ->
               setTimeout([S1 EXCEPT !.throttle = 50,
                              !.dronePos = Displace(currentPos, yaw, 0 - val)],
                          "setThrottle(0.3)", 500, NoRun)
          [] cmd = "left" ->
               setTimeout([S1 EXCEPT !.throttle = 50,
                              !.dronePos = Displace(currentPos, yaw + 90, val)],
                          "setThrottle(0.3)", 500, NoRun)
          [] cmd = "right" ->
               setTimeout([S1 EXCEPT !.throttle = 50,
                              !.dronePos = Displace(currentPos, yaw - 90, val)],
                          "setThrottle(0.3)", 500, NoRun)
          [] cmd = "yaw_left" ->
               [S1 EXCEPT !.droneRot =
                  <<currentRot[1], currentRot[2] + 15, currentRot[3]>>]
          [] cmd = "yaw_right" ->
               [S1 EXCEPT !.droneRot =
                  <<currentRot[1], currentRot[2] - 15, currentRot[3]>>]
          [] OTHER -> S1

\* the keys handleKeyDown maps, and the command of each
KeyMap ==
  [ w |-> "forward", s |-> "backward", a |-> "left", d |-> "right",
    q |-> "yaw_left", e |-> "yaw_right",
    arrowup |-> "takeoff", arrowdown |-> "land" ]

\* the effect registers the listener only in this case
keyListenerOn(kb, built, crash) == kb /\ built /\ ~crash

(***************************************************************************)
(* Script interpreter                                                      *)
(***************************************************************************)
HoopRadius == 1500

\* the commands that suspend the run (await new Promise(setTimeout))
Awaits(line) ==
  \/ line.head \in {"takeoff()", "land()", "forward(", "backward(", "left(",
                    "right(", "yaw(", "hover("}
  \/ line.head = "waypoint(" /\ line.wp # << >>

\* the run's local state after the line's statements before its await
BeforeAwaitRun(r, line) ==
  IF line.head = "yaw("
  THEN [r EXCEPT !.currentRot[2] = @ + NumArg(line, 90)]
  ELSE r

\* the component state after the line's statements before its await
BeforeAwait(S, r, line) ==
  LET yaw == r.currentRot[2]
      prev == S.dronePos
  IN  CASE line.head = "takeoff()" ->
             [S EXCEPT !.isHovering = TRUE, !.throttle = 80,
                       !.dronePos = <<prev[1], 2000, prev[3]>>]
        [] line.head = "land()" ->
             [S EXCEPT !.throttle = 10, !.dronePos = <<prev[1], 0, prev[3]>>]
        [] line.head = "forward(" ->
             [S EXCEPT !.throttle = 50,
                       !.dronePos = Displace(prev, yaw, NumArg(line, 1))]
        [] line.head = "backward(" ->
             [S EXCEPT !.throttle = 50,
                       !.dronePos = Displace(prev, yaw, 0 - NumArg(line, 1))]
        [] line.head = "left(" ->
             [S EXCEPT !.throttle = 50,
                       !.dronePos = Displace(prev, yaw + 90, NumArg(line, 1))]
        [] line.head = "right(" ->
             [S EXCEPT !.throttle = 50,
                       !.dronePos = Displace(prev, yaw - 90, NumArg(line, 1))]
        [] line.head = "yaw(" ->
             [S EXCEPT !.droneRot = BeforeAwaitRun(r, line).currentRot]
        [] line.head = "hover(" ->
             [S EXCEPT !.throttle = 30]
        [] line.head = "waypoint(" ->
             [S EXCEPT !.throttle = 60,
                       !.dronePos = <<R(line.wp[1]), prev[2], R(line.wp[2])>>]

\* the delay of the line's await, in ms
AwaitDelay(line) ==
  CASE line.head = "hover(" -> NumArg(line, 1) * 1000
    [] line.head = "waypoint(" -> 2000
    [] OTHER -> 1500

\* the line's statements after its await
AfterAwait(S, line) ==
  CASE line.head \in {"takeoff()", "forward(", "backward(", "left(", "right(",
                      "waypoint("} ->
         [S EXCEPT !.throttle = 30]
    [] line.head = "land()" ->
         [S EXCEPT !.isHovering = FALSE, !.throttle = 0]
    [] OTHER -> S

\* a line that does not suspend: a waypoint( the pattern does not match,
\* print_telemetry(), or an unknown command
Immediate(S, r, line) ==
  CASE line.head = "waypoint(" -> S
    [] line.head = "print_telemetry()" ->
         addLog(S, "Telemetry", << r.dronePos[2] \div 100, r.battery >>)
    [] OTHER -> addLog(S, "Unknown command", << line.text >>)

\* dist < 1.5 of the hoop at [0, 3, -5]: the sign of dist^2 - 1.5^2.  Where
\* the distance is exactly 1.5 the doubles that hold the position decide:
\* Math.sqrt(Math.pow(..) + ..) gives 1.4999999999999998, 1.5 or
\* 1.5000000000000002 there, and one place is held as different doubles
\* after different flights (0.2 typed into waypoint( and 0.2 drifted to).
\* onSphere is what the comparison gives in that case.
NearHoop(pos, onSphere) ==
  LET sx == Square(pos[1])
      sz == Square(Plus(pos[3], R(5000)))
      c  == (pos[2] - 3000) * (pos[2] - 3000) - HoopRadius * HoopRadius
      s  == Sign4(sx[1] + sz[1] + c, sx[2] + sz[2], sx[3] + sz[3], sx[4] + sz[4])
  IN  s < 0 \/ (s = 0 /\ onSphere)

\* "Mission Checks", on the activeMission and dronePos the run holds (the
\* same doubles at every check of the run)
MissionCheck(S, r) ==
  IF r.activeMission = "hoop" /\ NearHoop(r.dronePos, r.onSphere)
  THEN [addLog(S, "MISSION COMPLETE: Passed through hoop!", << >>)
          EXCEPT !.activeMission = "free"]
  ELSE S

\* after the loop
Finish(S) ==
  [addLog(S, "Execution finished.", << >>)
     EXCEPT !.isRunning = FALSE, !.throttle = 0]

\* the for loop from the head of the iteration of line r.i, up to the next
\* await (the run is left pending as a "resume" timer) or to the end
RECURSIVE RunLoop(_, _)
RunLoop(S, r) ==
  IF r.i > Len(r.lines) THEN Finish(S)
  ELSE IF ~r.isRunning THEN Finish(S)
  ELSE
    LET line == r.lines[r.i]
        S1 == addLog(S, "Executing", << line.text >>)
    IN  IF Awaits(line)
        THEN setTimeout(BeforeAwait(S1, r, line), "resume", AwaitDelay(line),
                        BeforeAwaitRun(r, line))
        ELSE RunLoop(MissionCheck(Immediate(S1, r, line), r),
                     [r EXCEPT !.i = @ + 1])

\* the run r goes on after the await of its line r.i
Resume(S, r) ==
  RunLoop(MissionCheck(AfterAwait(S, r.lines[r.i]), r), [r EXCEPT !.i = @ + 1])

\* runCode once its three checks have passed
StartRun(S, script, onSphere) ==
  LET S1 == addLog([S EXCEPT !.isRunning = TRUE], "Starting execution...", << >>)
      r  == [ lines |-> ParseLines(script), i |-> 1,
              currentRot |-> S.droneRot, isRunning |-> S.isRunning,
              dronePos |-> S.dronePos, activeMission |-> S.activeMission,
              battery |-> batteryVoltage(S.isHovering, S.throttle),
              onSphere |-> onSphere ]
  IN  RunLoop(S1, r)

NotBuiltError == Entry("ERROR", << "Drone is not fully built. Complete assembly first." >>)
TwrError      == Entry("ERROR", << "Thrust-to-Weight Ratio too low. Cannot takeoff." >>)
CrashedError  == Entry("ERROR", << "Drone is crashed. Reset required." >>)

\* bugs one could make: runCode without its first check, without its last
runCodeNoBuiltCheck(S, built, fly, script, onSphere) ==
  IF ~fly THEN addLog(S, TwrError.tag, TwrError.arg)
  ELSE IF S.crashed THEN addLog(S, CrashedError.tag, CrashedError.arg)
  ELSE StartRun(S, script, onSphere)

runCodeNoCrashedCheck(S, built, fly, script, onSphere) ==
  IF ~built THEN addLog(S, NotBuiltError.tag, NotBuiltError.arg)
  ELSE IF ~fly THEN addLog(S, TwrError.tag, TwrError.arg)
  ELSE StartRun(S, script, onSphere)

runCode(S, built, fly, script, onSphere) ==
  IF ~built THEN addLog(S, NotBuiltError.tag, NotBuiltError.arg)
  ELSE IF ~fly THEN addLog(S, TwrError.tag, TwrError.arg)
  ELSE IF S.crashed THEN addLog(S, CrashedError.tag, CrashedError.arg)
  ELSE StartRun(S, script, onSphere)

\* a bug one could make: a reset that forgets the rotation
stopCodeKeepsHeading(S) ==
  addLog([S EXCEPT !.isRunning = FALSE, !.isHovering = FALSE,
                   !.crashed = FALSE, !.throttle = 0,
                   !.dronePos = At(0, 0, 0)],
         "Execution stopped. Drone reset.", << >>)

stopCode(S) ==
  addLog([S EXCEPT !.isRunning = FALSE, !.isHovering = FALSE,
                   !.crashed = FALSE, !.throttle = 0,
                   !.dronePos = At(0, 0, 0), !.droneRot = <<0, 0, 0>>],
         "Execution stopped. Drone reset.", << >>)

(***************************************************************************)
(* Timers.  Callbacks fire in the order of their deadlines: a pending      *)
(* callback set earlier with a delay no longer than that of timers[i]      *)
(* fires before timers[i].                                                 *)
(***************************************************************************)
MayFire(ts, i) == \A j \in 1 .. i - 1 : ts[j].delay > ts[i].delay

Remove(ts, i) == SubSeq(ts, 1, i - 1) \o SubSeq(ts, i + 1, Len(ts))

\* a bug one could make: a landing that never disarms
CallbackStaysArmed(S, kind) ==
  CASE kind = "setThrottle(0.3)" -> [S EXCEPT !.throttle = 30]
    [] kind = "disarm" -> [S EXCEPT !.throttle = 0]

\* a bug one could make: the hover throttle mistyped
CallbackMistyped(S, kind) ==
  CASE kind = "setThrottle(0.3)" -> [S EXCEPT !.throttle = 40]
    [] kind = "disarm" -> [S EXCEPT !.isHovering = FALSE, !.throttle = 0]

\* the callback of a timer of handleManualCommand
Callback(S, kind) ==
  CASE kind = "setThrottle(0.3)" -> [S EXCEPT !.throttle = 30]
    [] kind = "disarm" -> [S EXCEPT !.isHovering = FALSE, !.throttle = 0]

(***************************************************************************)
(* The program: its initial state and one action per handler.  lastCall    *)
(* names the flight handler (handleManualCommand, also when a key called   *)
(* it, runCode, stopCode, a timer's callback) that ran last.               *)
(***************************************************************************)
Call(op, arg) == [op |-> op, arg |-> arg]

\* the component at its first render
FirstRender ==
  [ isHovering |-> FALSE, isRunning |-> FALSE, throttle |-> 0,
    crashed |-> FALSE, dronePos |-> At(0, 0, 0), droneRot |-> <<0, 0, 0>>,
    activeMission |-> "free", logs |-> InitLogs, timers |-> << >> ]

\* S once the callback of its one pending timer, if it has one, has run
\* (a state with two timers pending settles as the times of their calls
\* decide, which Timeout covers)
Settle(S) ==
  CASE S.timers = << >> -> S
    [] Len(S.timers) = 1 ->
         Callback([S EXCEPT !.timers = << >>], S.timers[1].kind)

\* S after the manual commands cmds given to the assembled drone, each
\* given once the timer of the one before it has fired
RECURSIVE Flown(_, _)
Flown(S, cmds) ==
  IF cmds = << >> THEN S
  ELSE Flown(Settle(handleManualCommand(S, TRUE, Head(cmds))), Tail(cmds))

\* after Takeoff: armed at (0, 2, 0)
Airborne == Flown(FirstRender, << "takeoff" >>)

\* after Takeoff and a yaw to the left: heading 15 degrees
Turned == Flown(FirstRender, << "takeoff", "yaw_left" >>)

\* after Takeoff and five moves backward: at (0, 2, -5), inside the hoop
AtHoop ==
  Flown(FirstRender, << "takeoff", "backward", "backward", "backward",
                        "backward", "backward" >>)

\* the component is in state S
Starts(S) ==
  /\ isHovering = S.isHovering
  /\ isRunning = S.isRunning
  /\ throttle = S.throttle
  /\ crashed = S.crashed
  /\ dronePos = S.dronePos
  /\ droneRot = S.droneRot
  /\ activeMission = S.activeMission
  /\ logs = S.logs
  /\ timers = S.timers

Init ==
  /\ buildState = InitBuildState
  /\ droneType = "quadcopter"
  /\ isHovering = FALSE
  /\ isRunning = FALSE
  /\ throttle = 0
  /\ crashed = FALSE
  /\ dronePos = At(0, 0, 0)
  /\ droneRot = <<0, 0, 0>>
  /\ activeMission = "free"
  /\ keyboardEnabled = FALSE
  /\ code = defaultCode
  /\ logs = InitLogs
  /\ timers = << >>
  /\ toggles = 0
  /\ lastCall = Call("Simulator", << >>)
  /\ windX = 0
  /\ windZ = 0
  /\ pGain = 10

\* the handler leaves the component in state S
Commit(S) ==
  /\ Len(S.logs) <= MaxLog
  /\ Len(S.timers) <= MaxTimers
  /\ isHovering' = S.isHovering
  /\ isRunning' = S.isRunning
  /\ throttle' = S.throttle
  /\ crashed' = S.crashed
  /\ dronePos' = S.dronePos
  /\ droneRot' = S.droneRot
  /\ activeMission' = S.activeMission
  /\ logs' = S.logs
  /\ timers' = S.timers

componentVars ==
  <<isHovering, isRunning, throttle, crashed, dronePos, droneRot,
    activeMission, logs, timers>>

\* a bug one could make: a click that installs and never removes
toggleComponentInstalls(bs, key) == [bs EXCEPT ![key] = TRUE]

\* a bug one could make: a toggle that rebuilds the registry from the key
toggleComponentClearsOthers(bs, key) ==
  [k \in Parts |-> IF k = key THEN ~bs[k] ELSE FALSE]

toggleComponent(bs, key) == [bs EXCEPT ![key] = ~@]

ToggleComponent ==
  \E key \in Parts :
    /\ toggles < MaxToggles
    /\ toggles' = toggles + 1
    /\ buildState' = toggleComponent(buildState, key)
    /\ UNCHANGED lastCall
    /\ UNCHANGED <<droneType, componentVars, keyboardEnabled, code, windX, windZ, pGain>>

SetDroneType ==
  \E t \in DroneTypes :
    /\ droneType' = t
    /\ UNCHANGED lastCall
    /\ UNCHANGED <<buildState, toggles, componentVars, keyboardEnabled, code,
                   windX, windZ, pGain>>

SetActiveMission ==
  \E m \in {"free", "hoop"} :
    /\ activeMission' = m
    /\ UNCHANGED lastCall
    /\ UNCHANGED <<registryVars, isHovering, isRunning, throttle, crashed,
                   dronePos, droneRot, logs, timers, keyboardEnabled, code,
                   windX, windZ, pGain>>

SetKeyboardEnabled ==
  /\ keyboardEnabled' = ~keyboardEnabled
  /\ UNCHANGED lastCall
  /\ UNCHANGED <<registryVars, componentVars, code, windX, windZ, pGain>>

SetCode ==
  \E script \in Scripts :
    /\ code' = script
    /\ UNCHANGED lastCall
    /\ UNCHANGED <<registryVars, componentVars, keyboardEnabled, windX, windZ, pGain>>

HandleManualCommand ==
  \E cmd \in ManualCommands :
    /\ Commit(handleManualCommand(Here, isFullyBuilt(buildState, droneType), cmd))
    /\ lastCall' = Call("handleManualCommand", << >>)
    /\ UNCHANGED <<registryVars, keyboardEnabled, code, windX, windZ, pGain>>

HandleKeyDown ==
  \E key \in DOMAIN KeyMap :
    /\ keyListenerOn(keyboardEnabled, isFullyBuilt(buildState, droneType), crashed)
    /\ Commit(handleManualCommand(Here, isFullyBuilt(buildState, droneType),
                                  KeyMap[key]))
    /\ lastCall' = Call("handleManualCommand", << >>)
    /\ UNCHANGED <<registryVars, keyboardEnabled, code, windX, windZ, pGain>>

RunCode ==
  /\ \E onSphere \in BOOLEAN :
       Commit(runCode(Here, isFullyBuilt(buildState, droneType),
                      canFly(buildState, droneType), code, onSphere))
  /\ lastCall' = Call("runCode", << >>)
  /\ UNCHANGED <<registryVars, keyboardEnabled, code, windX, windZ, pGain>>

StopCode ==
  /\ Commit(stopCode(Here))
  /\ lastCall' = Call("stopCode", << >>)
  /\ UNCHANGED <<registryVars, keyboardEnabled, code, windX, windZ, pGain>>

\* a timer of handleManualCommand fires
Timeout ==
  \E i \in 1 .. Len(timers) :
    /\ timers[i].kind # "resume"
    /\ MayFire(timers, i)
    /\ Commit(Callback([Here EXCEPT !.timers = Remove(timers, i)], timers[i].kind))
    /\ lastCall' = Call("timeout", << >>)
    /\ UNCHANGED <<registryVars, keyboardEnabled, code, windX, windZ, pGain>>

(***************************************************************************)
(* Spec: the program from its first render.  Every runCode call is made    *)
(* from a render in which isRunning is false (runCode sets it and clears   *)
(* it again in one synchronous stretch, so no render sees it true), and    *)
(* its loop ends before the first line (NoRunSuspends below): no await of  *)
(* runCode is ever reached, and no run is ever resumed.                    *)
(***************************************************************************)
Next ==
  \/ ToggleComponent
  \/ SetDroneType
  \/ SetKeyboardEnabled
  \/ HandleManualCommand
  \/ HandleKeyDown
  \/ RunCode
  \/ StopCode
  \/ Timeout

Spec == Init /\ [][Next]_vars

(***************************************************************************)
(* SpecFair: Spec with the timers' callbacks eventually run (the event     *)
(* loop runs the callback of every timer whose delay has passed).          *)
(***************************************************************************)
SpecFair == Spec /\ WF_vars(Timeout)

(***************************************************************************)
(* SpecRun: the flight handlers (manual commands, keys, runCode, stopCode, *)
(* the timers) with the registry fixed: the bare frame, the powered frame  *)
(* or the assembled quadcopter, from the first render or armed after a     *)
(* Takeoff.                                                                *)
(***************************************************************************)
AssembledQuad == [k \in Parts |-> k \notin {"camera", "wings"}]

\* thrust enough to fly, assembly incomplete
PoweredFrame == [k \in Parts |-> k \in {"frame", "motors", "battery", "props"}]

InitRun ==
  /\ buildState \in {InitBuildState, PoweredFrame, AssembledQuad}
  /\ droneType = "quadcopter"
  /\ toggles = Cardinality({k \in Parts : buildState[k] # InitBuildState[k]})
  /\ \E S \in {FirstRender, Airborne} : Starts(S)
  /\ keyboardEnabled = TRUE
  /\ code = defaultCode
  /\ lastCall = Call("Simulator", << >>)
  /\ windX = 0
  /\ windZ = 0
  /\ pGain = 10

NextRun ==
  \/ SetActiveMission
  \/ SetCode
  \/ HandleManualCommand
  \/ HandleKeyDown
  \/ RunCode
  \/ StopCode
  \/ Timeout

SpecRun == InitRun /\ [][NextRun]_vars

(***************************************************************************)
(* SpecScript: runCode applied to the scripts of ScriptInputs, with the    *)
(* mission free or hoop, by the assembled quadcopter on the ground (the    *)
(* first render) or flown into the hoop by hand.                           *)
(***************************************************************************)
\* the handler leaves the component in state S, its log within MaxRunLog
CommitRun(S) ==
  /\ Len(S.logs) <= MaxRunLog
  /\ isHovering' = S.isHovering
  /\ isRunning' = S.isRunning
  /\ throttle' = S.throttle
  /\ crashed' = S.crashed
  /\ dronePos' = S.dronePos
  /\ droneRot' = S.droneRot
  /\ activeMission' = S.activeMission
  /\ logs' = S.logs
  /\ timers' = S.timers

\* runCode, called when no run is suspended
RunScript ==
  /\ timers = << >>
  /\ \E onSphere \in BOOLEAN :
       CommitRun(runCode(Here, isFullyBuilt(buildState, droneType),
                         canFly(buildState, droneType), code, onSphere))
  /\ lastCall' = Call("runCode", << >>)
  /\ UNCHANGED <<registryVars, keyboardEnabled, code, windX, windZ, pGain>>

InitScript ==
  /\ buildState = AssembledQuad
  /\ droneType = "quadcopter"
  /\ toggles = Cardinality({k \in Parts : buildState[k] # InitBuildState[k]})
  /\ \E S \in {FirstRender, AtHoop} : Starts(S)
  /\ keyboardEnabled = FALSE
  /\ code \in ScriptInputs \cup Scripts
  /\ lastCall = Call("Simulator", << >>)
  /\ windX = 0
  /\ windZ = 0
  /\ pGain = 10

NextScript ==
  \/ RunScript
  \/ SetActiveMission

SpecScript == InitScript /\ [][NextScript]_vars

(***************************************************************************)
(* SpecKeys: the key listener under the keydown and keyup events of one    *)
(* key at a time, over a stretch shorter than the timers' delays.  A key   *)
(* that is down sends further keydown events (auto-repeat) until its       *)
(* keyup; lastCall holds the key that is down.                             *)
(***************************************************************************)
\* a keydown event of a bound key: the first of a press, or an auto-repeat
\* of the key that is down
KeyDownEvent ==
  \E key \in DOMAIN KeyMap :
    /\ lastCall.op = "keydown" => lastCall.arg = << key >>
    /\ keyListenerOn(keyboardEnabled, isFullyBuilt(buildState, droneType), crashed)
    /\ Commit(handleManualCommand(Here, isFullyBuilt(buildState, droneType),
                                  KeyMap[key]))
    /\ lastCall' = Call("keydown", << key >>)
    /\ UNCHANGED <<registryVars, keyboardEnabled, code, windX, windZ, pGain>>

\* the keyup event of the key that is down: no listener
KeyUpEvent ==
  /\ lastCall.op = "keydown"
  /\ lastCall' = Call("keyup", lastCall.arg)
  /\ UNCHANGED <<registryVars, componentVars, keyboardEnabled, code,
                 windX, windZ, pGain>>

InitKeys ==
  /\ buildState = AssembledQuad
  /\ droneType = "quadcopter"
  /\ toggles = Cardinality({k \in Parts : buildState[k] # InitBuildState[k]})
  /\ \E S \in {FirstRender, Airborne} : Starts(S)
  /\ keyboardEnabled = TRUE
  /\ code = defaultCode
  /\ lastCall = Call("Simulator", << >>)
  /\ windX = 0
  /\ windZ = 0
  /\ pGain = 10

NextKeys ==
  \/ KeyDownEvent
  \/ KeyUpEvent

SpecKeys == InitKeys /\ [][NextKeys]_vars

(***************************************************************************)
(* SpecWind: the frame callback of PhysicsEngine (useFrame) under the      *)
(* winds of WindValues, on the ground or armed after a Takeoff.  pGain     *)
(* stays at its initial 1.0: the wobble is left to SpecWobble.             *)
(***************************************************************************)
\* windX, windZ in tenths: inside the deadband (0, 0.1) and outside it
WindValues == {-20, 0, 1, 20}

\* the time since the last frame, in ms
Deltas == {20, 40}

\* pGain in tenths: sluggish (< 0.8), between 0.8 and 1.2, nominal (1.0),
\* overcompensated (> 1.2, up to the slider's 2.5)
PGainValues == {5, 9, 10, 20, 25}

\* state.clock.elapsedTime at a frame, in ms
ClockTimes == {0, 250, 628, 1000, 3142}

\* Math.sin(time * 2), Math.cos(time * 2.5), Math.sin(time * 20) and
\* Math.cos(time * 20) at the times of ClockTimes, in units of 10^-8
Trig ==
  [t \in ClockTimes |->
     CASE t = 0    -> [sin2 |-> 0,        cos25 |-> 100000000,
                       sin20 |-> 0,        cos20 |-> 100000000]
       [] t = 250  -> [sin2 |-> 47942554, cos25 |-> 81096312,
                       sin20 |-> -95892427, cos20 |-> 28366219]
       [] t = 628  -> [sin2 |-> 95085946, cos25 |-> 79633,
                       sin20 |-> -637057,  cos20 |-> 99997971]
       [] t = 1000 -> [sin2 |-> 90929743, cos25 |-> -80114362,
                       sin20 |-> 91294525, cos20 |-> 40808206]
       [] t = 3142 -> [sin2 |-> 81469,    cos25 |-> -101837,
                       sin20 |-> 814684,   cos20 |-> 99996681]]

\* the drift of a frame: position + wind * driftFactor * delta, driftFactor
\* being 0.5, set only when the wind is outside the deadband
Drift(S, wx, wz, delta) ==
  IF Abs(wx) > 1 \/ Abs(wz) > 1
  THEN [S EXCEPT !.dronePos = << Plus(S.dronePos[1], R((wx * delta) \div 20)),
                                 S.dronePos[2],
                                 Plus(S.dronePos[3], R((wz * delta) \div 20)) >>]
  ELSE S

\* the wobble of a frame at time clock, <<wobbleX, wobbleZ>> in units of
\* 10^-10 rad: sin * (1.0 - pGain) * 0.2 and sin * (pGain - 1.0) * 0.1
Wobble(pg, clock) ==
  IF pg < 8
  THEN << Trig[clock].sin2 * (10 - pg) * 2, Trig[clock].cos25 * (10 - pg) * 2 >>
  ELSE IF pg > 12
  THEN << Trig[clock].sin20 * (pg - 10), Trig[clock].cos20 * (pg - 10) >>
  ELSE <<0, 0>>

\* Math.abs(wobble) > 0.01
Significant(w) == Abs(w) > 100000000

\* w to the nearest millionth of a radian
Micro(w) == (w + 5000) \div 10000

\* a bug one could make: the isRunning prop bound to isRunning alone
useFrameWhileRunning(S, wx, wz, delta, pg, clock) ==
  IF S.crashed THEN S
  ELSE IF S.isHovering /\ S.isRunning
  THEN LET S1 == Drift(S, wx, wz, delta)
           w  == Wobble(pg, clock)
       IN  IF pg # 10
           THEN IF Significant(w[1]) \/ Significant(w[2])
                THEN [S1 EXCEPT !.droneRot =
                             <<Micro(w[1]), S1.droneRot[2], Micro(w[2])>>]
                ELSE S1
           ELSE IF S1.droneRot[1] # 0 \/ S1.droneRot[3] # 0
                THEN [S1 EXCEPT !.droneRot = <<0, S1.droneRot[2], 0>>]
                ELSE S1
  ELSE S

\* a bug one could make: a wobble that resets the heading
useFrameWobbleTurns(S, wx, wz, delta, pg, clock) ==
  IF S.crashed THEN S
  ELSE IF S.isHovering /\ (S.isRunning \/ S.isHovering)
  THEN LET S1 == Drift(S, wx, wz, delta)
           w  == Wobble(pg, clock)
       IN  IF pg # 10
           THEN IF Significant(w[1]) \/ Significant(w[2])
                THEN [S1 EXCEPT !.droneRot = <<Micro(w[1]), 0, Micro(w[2])>>]
                ELSE S1
           ELSE IF S1.droneRot[1] # 0 \/ S1.droneRot[3] # 0
                THEN [S1 EXCEPT !.droneRot = <<0, S1.droneRot[2], 0>>]
                ELSE S1
  ELSE S

\* the frame callback of the component in state S.  Its isRunning is the
\* prop, which Simulator binds to isRunning || isHovering.  Roll and pitch
\* (droneRot[1], droneRot[3]) are in millionths of a radian.
useFrame(S, wx, wz, delta, pg, clock) ==
  IF S.crashed THEN S
  ELSE IF S.isHovering /\ (S.isRunning \/ S.isHovering)
  THEN LET S1 == Drift(S, wx, wz, delta)
           w  == Wobble(pg, clock)
       IN  IF pg # 10
           THEN IF Significant(w[1]) \/ Significant(w[2])
                THEN [S1 EXCEPT !.droneRot =
                             <<Micro(w[1]), S1.droneRot[2], Micro(w[2])>>]
                ELSE S1
           ELSE IF S1.droneRot[1] # 0 \/ S1.droneRot[3] # 0
                THEN [S1 EXCEPT !.droneRot = <<0, S1.droneRot[2], 0>>]
                ELSE S1
  ELSE S

SetWindX ==
  \E w \in WindValues :
    /\ windX' = w
    /\ UNCHANGED <<registryVars, componentVars, keyboardEnabled, code,
                   lastCall, windZ, pGain>>

SetWindZ ==
  \E w \in WindValues :
    /\ windZ' = w
    /\ UNCHANGED <<registryVars, componentVars, keyboardEnabled, code,
                   lastCall, windX, pGain>>

\* a frame: the drone stays within MaxDrift of the axes
PhysicsTick ==
  \E delta \in Deltas, clock \in ClockTimes :
    LET S == useFrame(Here, windX, windZ, delta, pGain, clock)
    IN  /\ Abs(Millis(S.dronePos[1])) <= MaxDrift
        /\ Abs(Millis(S.dronePos[3])) <= MaxDrift
        /\ Commit(S)
        /\ lastCall' = Call("useFrame", << >>)
        /\ UNCHANGED <<registryVars, keyboardEnabled, code, windX, windZ, pGain>>

InitWind ==
  /\ buildState = AssembledQuad
  /\ droneType = "quadcopter"
  /\ toggles = Cardinality({k \in Parts : buildState[k] # InitBuildState[k]})
  /\ \E S \in {FirstRender, Airborne} : Starts(S)
  /\ keyboardEnabled = FALSE
  /\ code = defaultCode
  /\ lastCall = Call("Simulator", << >>)
  /\ windX = 0
  /\ windZ = 0
  /\ pGain = 10

NextWind ==
  \/ SetWindX
  \/ SetWindZ
  \/ PhysicsTick

SpecWind == InitWind /\ [][NextWind]_vars

(***************************************************************************)
(* SpecWobble: the frame callback under the gains of PGainValues, with no  *)
(* wind set, on the ground, armed at heading 0, or armed at heading 15.    *)
(***************************************************************************)
SetPGain ==
  \E g \in PGainValues :
    /\ pGain' = g
    /\ UNCHANGED <<registryVars, componentVars, keyboardEnabled, code,
                   lastCall, windX, windZ>>

NextWobble ==
  \/ SetPGain
  \/ PhysicsTick

InitWobble ==
  /\ buildState = AssembledQuad
  /\ droneType = "quadcopter"
  /\ toggles = Cardinality({k \in Parts : buildState[k] # InitBuildState[k]})
  /\ \E S \in {FirstRender, Airborne, Turned} : Starts(S)
  /\ keyboardEnabled = FALSE
  /\ code = defaultCode
  /\ lastCall = Call("Simulator", << >>)
  /\ windX = 0
  /\ windZ = 0
  /\ pGain = 10

SpecWobble == InitWobble /\ [][NextWobble]_vars

(***************************************************************************)
(* SpecBuild: the Build tab (toggleComponent and the drone type buttons)   *)
(* from every registry and both drone types, on the ground or armed after  *)
(* a Takeoff (parts can be toggled in flight).  toggles counts the         *)
(* toggleComponent calls of the behaviour.                                 *)
(***************************************************************************)
InitBuild ==
  /\ buildState \in [Parts -> BOOLEAN]
  /\ droneType \in DroneTypes
  /\ toggles = 0
  /\ \E S \in {FirstRender, Airborne} : Starts(S)
  /\ keyboardEnabled = TRUE
  /\ code = defaultCode
  /\ lastCall = Call("Simulator", << >>)
  /\ windX = 0
  /\ windZ = 0
  /\ pGain = 10

NextBuild ==
  \/ ToggleComponent
  \/ SetDroneType

SpecBuild == InitBuild /\ [][NextBuild]_vars

(***************************************************************************)
(* Properties                                                              *)
(***************************************************************************)
built == isFullyBuilt(buildState, droneType)

flyable == canFly(buildState, droneType)

\* what a step appends to the log
NewEntries == SubSeq(logs', Len(logs) + 1, Len(logs'))

Count(entries, tag) == Cardinality({i \in 1 .. Len(entries) : entries[i].tag = tag})

LastTag(entries) == IF entries = << >> THEN "" ELSE entries[Len(entries)].tag

\* the runs that are suspended in an await
PendingRuns == {i \in 1 .. Len(timers) : timers[i].kind = "resume"}

\* No run is ever suspended and isRunning is never true: runCode holds the
\* isRunning of the render it was created in, false, and leaves its loop
\* at the first "if (!isRunning) break".
NoRunSuspends == PendingRuns = {} /\ ~isRunning

\* C1 (as claimed): run from the ground with the assembled drone, the
\* default script ends disarmed at altitude 0, and the log gains exactly 6
\* "Executing" lines, then a final "Execution finished.", and no "ERROR".
C1_DefaultScriptRuns ==
  [][ ( /\ RunCode
        /\ built /\ flyable /\ ~crashed
        /\ code = defaultCode
        /\ ~isHovering /\ dronePos[2] = 0 )
      => ( /\ ~isHovering' /\ dronePos'[2] = 0
           /\ Count(NewEntries, "Executing") = 6
           /\ LastTag(NewEntries) = "Execution finished."
           /\ Count(NewEntries, "ERROR") = 0 ) ]_vars

\* C2: in every reachable state (armed or not, timers pending or not)
\* stopCode leaves position (0,0,0), rotation 0, armed false, throttle 0,
\* crashed false and isRunning false.
C2_StopResets ==
  LET S == stopCode(Here)
  IN  /\ S.dronePos = At(0, 0, 0)
      /\ S.droneRot = <<0, 0, 0>>
      /\ ~S.isHovering
      /\ S.throttle = 0
      /\ ~S.crashed
      /\ ~S.isRunning

\* C2 witness: stopCode has run on the drone turned to heading 15 and just
\* taken off, the takeoff's timer still pending, and the drone is reset.
C2_StoppedInFlight ==
  /\ lastCall.op = "stopCode"
  /\ Len(logs) = 4
  /\ logs[2] = Entry("Manual Override", << "YAW_LEFT" >>)
  /\ logs[3] = Entry("Manual Override", << "TAKEOFF" >>)
  /\ timers # << >>
  /\ dronePos = At(0, 0, 0) /\ droneRot = <<0, 0, 0>>
  /\ ~isHovering /\ throttle = 0 /\ ~crashed /\ ~isRunning

\* C4: runCode called while the drone is not fully built appends the
\* "not fully built" ERROR line and changes nothing else: isRunning stays
\* false, position, rotation, armed, throttle and crashed stay as they are.
C4_UnbuiltRunRejected ==
  [][ (RunCode /\ ~built)
      => ( /\ logs' = Append(logs, NotBuiltError)
           /\ ~isRunning'
           /\ UNCHANGED <<dronePos, droneRot, isHovering, throttle, crashed>> ) ]_vars

\* C4 witness: runCode was rejected for an armed drone (a part was removed
\* in flight), which is still armed at altitude 2.
C4_RejectedWhileArmed ==
  /\ lastCall.op = "runCode"
  /\ ~built
  /\ logs[Len(logs)] = NotBuiltError
  /\ isHovering /\ dronePos[2] = 2000 /\ ~isRunning

\* C5 (as claimed): runCode called with canFly false appends the
\* "Thrust-to-Weight Ratio too low" ERROR line.
C5_TwrLineWhenCannotFly ==
  [][ (RunCode /\ ~flyable) => logs' = Append(logs, TwrError) ]_vars

\* runCode applied to the component as it is but crashed
CrashedHere == [Here EXCEPT !.crashed = TRUE]

\* C5 (amended): runCode called with crashed true or canFly false appends
\* one ERROR line, that of its first failing check ("not fully built" when
\* the assembly is incomplete, as it is whenever canFly is false, else
\* "reset required"), and changes nothing else; only stopCode clears crashed.
C5_CrashedOrUnflyableRejected ==
  [][ /\ (RunCode /\ ~flyable)
         => ( /\ ~built
              /\ logs' = Append(logs, NotBuiltError)
              /\ UNCHANGED <<isRunning, dronePos, droneRot, isHovering, throttle,
                             crashed, activeMission, timers>> )
      /\ \A onSphere \in BOOLEAN :
           runCode(CrashedHere, built, flyable, code, onSphere)
             = [CrashedHere EXCEPT !.logs =
                  Append(logs, IF ~built THEN NotBuiltError ELSE CrashedError)]
      /\ (crashed /\ ~crashed') => StopCode ]_vars

\* C5 witness: runCode was rejected for the bare frame (no thrust), armed
\* when its parts were taken off in flight: still armed at altitude 2, no
\* run started.
C5_RejectedUnflyable ==
  /\ lastCall.op = "runCode"
  /\ ~flyable /\ ~built
  /\ logs[Len(logs)] = NotBuiltError
  /\ isHovering /\ dronePos[2] = 2000 /\ throttle = 30
  /\ ~isRunning /\ timers = << >>

\* C8 (as claimed): a manual command given while the drone is not fully
\* built and flyable changes no drone state and appends an error line.
C8_ManualRejectionLogged ==
  [][ (HandleManualCommand /\ ~(built /\ flyable))
      => ( /\ UNCHANGED <<dronePos, droneRot, isHovering, throttle, crashed>>
           /\ Len(logs') = Len(logs) + 1
           /\ LastTag(logs') = "ERROR" ) ]_vars

\* the installed parts' weights, summed part by part
InstalledWeight(bs) ==
  (IF bs.frame THEN 150 ELSE 0) + (IF bs.motors THEN 120 ELSE 0)
  + (IF bs.esc THEN 20 ELSE 0) + (IF bs.fc THEN 10 ELSE 0)
  + (IF bs.camera THEN 15 ELSE 0) + (IF bs.battery THEN 250 ELSE 0)
  + (IF bs.props THEN 20 ELSE 0) + (IF bs.wings THEN 200 ELSE 0)

\* C9: in every registry reached by toggles totalWeight is the sum of the
\* installed parts' weights, and toggling any part twice gives back the
\* registry, hence totalWeight, maxThrust and isFullyBuilt.
C9_WeightAndDoubleToggle ==
  /\ totalWeight(buildState) = InstalledWeight(buildState)
  /\ \A k \in Parts :
       LET twice == toggleComponent(toggleComponent(buildState, k), k)
       IN  /\ twice = buildState
           /\ toggleComponent(buildState, k) # buildState
           /\ totalWeight(twice) = totalWeight(buildState)
           /\ maxThrust(twice, droneType) = maxThrust(buildState, droneType)
           /\ isFullyBuilt(twice, droneType) = isFullyBuilt(buildState, droneType)

\* C9 witness: the assembled quadcopter with its camera, reached by
\* toggles, weighing 585.
C9_AssembledWithCamera ==
  /\ toggles = 6
  /\ buildState = [AssembledQuad EXCEPT !.camera = TRUE]
  /\ totalWeight(buildState) = 585

\* the thrust and the weight of the render
thrustHere == maxThrust(buildState, droneType)
weightHere == totalWeight(buildState)

Accepted == built /\ flyable /\ ~crashed

\* C11 (as claimed): with heading 0 the interpreter executing forward(3)
\* changes the position by exactly (0, 0, 3).
C11_ForwardThree ==
  [][ (RunScript /\ Accepted /\ code = forwardCode /\ droneRot[2] = 0)
      => dronePos' = <<dronePos[1], dronePos[2], Plus(dronePos[3], R(3000))>> ]_vars

\* C12 (as claimed): with heading 0 the interpreter executing yaw(90) sets
\* the heading to 90 degrees (the forward(1) after it then moving the drone
\* along x).
C12_YawThenForward ==
  [][ (RunScript /\ Accepted /\ code = yawCode /\ droneRot[2] = 0)
      => droneRot'[2] = 90 ]_vars

\* C14 (as claimed): in every reachable state the heading lies in
\* [0, 360) degrees.
C14_HeadingWrapped == droneRot[2] >= 0 /\ droneRot[2] < 360

\* a landing's disarm timer is pending
LandingPending == \E i \in 1 .. Len(timers) : timers[i].kind = "disarm"

\* C15: whenever the drone is armed at altitude 0 a landing's timer is
\* pending (so with no timer pending, altitude 0 implies disarmed), and
\* the timers firing, armed at altitude 0 always comes to an end.
C15_ArmedOnGroundTransient ==
  /\ []((isHovering /\ dronePos[2] = 0) => LandingPending)
  /\ []((timers = << >> /\ dronePos[2] = 0) => ~isHovering)
  /\ ((isHovering /\ dronePos[2] = 0) ~> ~(isHovering /\ dronePos[2] = 0))

\* C15 witness: the landing's timer has fired and left the drone disarmed
\* at altitude 0 with no timer pending, after a takeoff and a land.
C15_LandedAndDisarmed ==
  /\ lastCall.op = "timeout"
  /\ Len(logs) = 3
  /\ logs[2] = Entry("Manual Override", << "TAKEOFF" >>)
  /\ logs[3] = Entry("Manual Override", << "LAND" >>)
  /\ timers = << >>
  /\ dronePos[2] = 0 /\ ~isHovering

\* C16 (as claimed): an auto-repeat keydown event (the key is down already)
\* applies no manual action: it changes no state and logs nothing.
C16_HeldKeyAppliesOnce ==
  [][ (KeyDownEvent /\ lastCall.op = "keydown") => UNCHANGED componentVars ]_vars

\* C17: with the drone armed and not crashed, windX = 2 and windZ = 0, a
\* frame of any length strictly increases position.x and leaves y and z
\* as they are; with windX = 0 and windZ = 0 it leaves the position
\* unchanged.
C17_DriftWheneverArmed ==
  \A delta \in Deltas, clock \in ClockTimes :
    /\ (isHovering /\ ~crashed)
         => LET pos == useFrame(Here, 20, 0, delta, pGain, clock).dronePos
            IN  /\ pos[1][1] > dronePos[1][1]
                /\ <<pos[1][2], pos[1][3], pos[1][4]>>
                     = <<dronePos[1][2], dronePos[1][3], dronePos[1][4]>>
                /\ pos[2] = dronePos[2] /\ pos[3] = dronePos[3]
    /\ useFrame(Here, 0, 0, delta, pGain, clock).dronePos = dronePos

\* C17 witness: a frame under windX = 2 has moved the armed drone, no
\* script started, from (0, 2, 0) to x = 0.04.
C17_Drifted ==
  /\ lastCall.op = "useFrame"
  /\ windX = 20 /\ windZ = 0
  /\ isHovering /\ ~isRunning /\ ~crashed
  /\ dronePos = At(40, 2000, 0)

\* C18 (as claimed): a run meeting an unrecognized line appends its
\* "Unknown command" line and goes on to the next line.
C18_UnknownNotFatal ==
  [][ (RunScript /\ Accepted /\ code = unknownCode)
      => ( /\ Count(NewEntries, "Unknown command") = 1
           /\ Entry("Executing", << "takeoff()" >>)
                \in {NewEntries[j] : j \in 1 .. Len(NewEntries)} ) ]_vars

\* C19: across every step of runCode, stopCode, handleManualCommand and
\* the timer callbacks the previous log is a prefix of the new log.
C19_LogAppendOnly ==
  [][ /\ Len(logs') >= Len(logs)
      /\ SubSeq(logs', 1, Len(logs)) = logs ]_vars

\* C19 witness: a log of four entries, the last three appended in turn by
\* handleManualCommand, stopCode and handleManualCommand.
C19_LogOfThreeCalls ==
  /\ Len(logs) = 4
  /\ logs[1] = InitLogs[1]
  /\ logs[2].tag = "Manual Override"
  /\ logs[3].tag = "Execution stopped. Drone reset."
  /\ logs[4].tag = "Manual Override"

\* C20 (as claimed): the mission check made after each executed command
\* uses the drone's position of that moment.  The script hoopCode, run
\* from the pad (0, 0, 0) with the hoop mission selected, takes the drone
\* to (0, 2, -5), at 1 from the hoop at (0, 3, -5): when the run comes to
\* its "Execution finished." the mission has been completed (activeMission
\* is free and "MISSION COMPLETE" is in the log).
C20_CheckUsesCurrentPosition ==
  [][ ( /\ code = hoopCode
        /\ activeMission = "hoop"
        /\ dronePos = At(0, 0, 0)
        /\ LastTag(NewEntries) = "Execution finished." )
      => ( /\ activeMission' = "free"
           /\ \E k \in 1 .. Len(NewEntries) :
                NewEntries[k].tag = "MISSION COMPLETE: Passed through hoop!" ) ]_vars

\* C21 (as claimed): once all timers have fired, the throttle is the one
\* the latest manual action alone decides: 0.3 after a takeoff or a lateral
\* move, 0 after a land.
C21_LatestActionDecides ==
  (timers = << >> /\ lastCall.op = "timeout" /\ LastTag(logs) = "Manual Override")
    => LET cmd == logs[Len(logs)].arg[1]
       IN  /\ cmd \in {"TAKEOFF", "FORWARD", "BACKWARD", "LEFT", "RIGHT"}
                => throttle = 30
           /\ cmd = "LAND" => throttle = 0

\* C22: in every state a frame of any length, under any wind, gain and
\* clock, leaves armed, crashed, throttle, altitude and heading unchanged
\* (and running flag, log and timers).
C22_FrameKeepsFlightState ==
  \A delta \in Deltas, clock \in ClockTimes, wx \in WindValues,
     wz \in WindValues, g \in PGainValues :
    LET S == useFrame(Here, wx, wz, delta, g, clock)
    IN  /\ S.isHovering = isHovering
        /\ S.crashed = crashed
        /\ S.throttle = throttle
        /\ S.dronePos[2] = dronePos[2]
        /\ S.droneRot[2] = droneRot[2]
        /\ S.isRunning = isRunning /\ S.logs = logs /\ S.timers = timers

\* C22 witness: a frame has set roll and pitch of the armed drone under an
\* overcompensated gain; altitude 2 and heading 15 are as before.
C22_Wobbled ==
  /\ lastCall.op = "useFrame"
  /\ pGain = 20
  /\ droneRot = <<-95892, 15, 28366>>
  /\ isHovering /\ ~crashed
  /\ dronePos = At(0, 2000, 0) /\ throttle = 30

\* C23: toggleComponent(key) flips exactly the installed flag of key and
\* leaves every other registry flag, the drone type and the flight state
\* (position, heading, armed, throttle, crashed, running flag, log, timers)
\* unchanged, also when the drone is armed.
C23_ToggleFlipsOneFlag ==
  [][ ToggleComponent
        => /\ \E key \in Parts :
                /\ buildState'[key] = ~buildState[key]
                /\ \A k \in Parts \ {key} : buildState'[k] = buildState[k]
           /\ UNCHANGED <<droneType, isHovering, isRunning, throttle, crashed,
                          dronePos, droneRot, logs, timers>> ]_vars

\* C23 witness: armed at altitude 2, the propellers just taken off the
\* assembled quadcopter by the first toggle
C23_ToggledWhileArmed ==
  /\ toggles = 1
  /\ buildState = [AssembledQuad EXCEPT !["props"] = FALSE]
  /\ isHovering
  /\ throttle = 30 /\ dronePos = At(0, 2000, 0)

\* C24 (as claimed): the interpreter executing yaw(-90) adds -90 degrees to
\* the heading.
C24_YawIsSigned ==
  [][ (RunScript /\ Accepted /\ code = yawBackCode)
      => droneRot'[2] = droneRot[2] - 90 ]_vars

\* C25 (as claimed): from the same position and heading, the interpreter's
\* forward(1) leaves the position the manual forward leaves.
C25_ManualAsInterpreter ==
  [][ (RunScript /\ Accepted /\ code = stepCode /\ isHovering)
      => dronePos' = handleManualCommand(Here, TRUE, "forward").dronePos ]_vars

\* the altitudes and the throttles (hundredths) the handlers write
Altitudes == {0, 2000}

Throttles == {0, 10, 30, 50, 60, 80}

\* C26: in every state the handlers (runCode, manual actions, timer
\* callbacks, Stop) leave, position.y is 0 or 2 and throttle is one of 0,
\* 0.1, 0.3, 0.5, 0.6, 0.8, and a physics frame from that state, windy and
\* wobbling or not, leaves both as they are.
C26_AltitudeAndThrottleSets ==
  /\ dronePos[2] \in Altitudes
  /\ throttle \in Throttles
  /\ \A wx \in {0, 20}, pg \in {10, 20} :
       LET F == useFrame(Here, wx, 0 - wx, 40, pg, 250)
       IN  F.dronePos[2] = dronePos[2] /\ F.throttle = throttle

\* C26 witness: a manual forward has moved the drone, in the air at half
\* throttle until its timer fires
C26_MovingForward ==
  /\ lastCall.op = "handleManualCommand"
  /\ logs[Len(logs)] = Entry("Manual Override", << "FORWARD" >>)
  /\ dronePos[2] = 2000
  /\ throttle = 50
  /\ timers # << >>

\* C27: with the shipped COMPONENT_SPECS, in every registry and for both
\* drone types, isFullyBuilt implies canFly, and runCode does not answer
\* with the "Thrust-to-Weight Ratio too low" error.
C27_BuiltCanFly ==
  /\ built => flyable
  /\ \A onSphere \in BOOLEAN :
       LET S == runCode([Here EXCEPT !.logs = << >>], built, flyable, code,
                        onSphere)
       IN  S.logs = << >> \/ S.logs[Len(S.logs)] # TwrError

\* C27 witness: the fixed-wing with every part installed, the heaviest
\* build on the weaker thrust, after a toggle: ratio 2.5
C27_HeaviestFixedWing ==
  /\ toggles = 1
  /\ droneType = "fixed-wing"
  /\ buildState = [k \in Parts |-> TRUE]
  /\ built /\ flyable
  /\ twr(maxThrust(buildState, droneType), totalWeight(buildState)) = 25

\* C28 (as claimed): once no timer is pending, a disarmed drone is on the
\* ground: the disarm a land scheduled does not disarm a drone that took off
\* again in the meantime.
C28_DisarmedOnGround ==
  (timers = << >> /\ ~isHovering) => dronePos[2] = 0

\* C29 (as claimed): whenever the drone is armed and not crashed, a manual
\* land is accepted: it sets the altitude to 0 and schedules the disarm.
C29_LandAccepted ==
  (isHovering /\ ~crashed)
    => LET S == handleManualCommand(Here, built, "land")
       IN  /\ S.dronePos[2] = 0
           /\ Len(S.timers) = Len(timers) + 1
           /\ S.timers[Len(S.timers)].kind = "disarm"

\* C30 (as claimed): after stopCode, until the next runCode or manual action,
\* a timer callback leaves position, heading, armed and throttle at their
\* reset values.
C30_ResetStays ==
  [][ ( /\ Timeout
        /\ LastTag(logs) = "Execution stopped. Drone reset."
        /\ dronePos = At(0, 0, 0) /\ droneRot = <<0, 0, 0>>
        /\ ~isHovering /\ throttle = 0 )
      => UNCHANGED <<dronePos, droneRot, isHovering, throttle>> ]_vars
====
